---- MODULE Spec2Model ----
(***************************************************************************)
(* Model of the process supervisor of src/index.js: the registry REG, the  *)
(* start operation with its deferred manifest read, the launch handlers,   *)
(* the output capture (line assembler, flush, sink) and the exit handling  *)
(* wired to the child's 'error', 'exit' and 'close' events.                *)
(*                                                                         *)
(* JavaScript runs every handler to completion on one thread, so each      *)
(* handler is one action.  Script paths are sequences of one-character     *)
(* strings; the text of the output streams is a sequence of UTF-16 code    *)
(* units (numbers), so that every character String.prototype.trim and the  *)
(* split of show_lines_1 know can be told apart.                           *)
(***************************************************************************)
EXTENDS Integers, Sequences, FiniteSets, TLC

VARIABLES
    REG,        \* the process registry, a sequence of process entries (pi)
    calls,      \* number of calls of start made so far (gives each pi its identity)
    reads,      \* fs.readFile requests of get_script_1 not yet answered: pi records
    child,      \* per entry: the state of pi.child, the spawned process
    op,         \* per entry: the stdout accumulator of captureOutput
    er,         \* per entry: the stderr accumulator of captureOutput
    appends,    \* fs.appendFile requests of out not yet answered
    nextAppend, \* number of appendFile requests issued so far
    files,      \* per log file: the lines appended to it, in order of completion
    console,    \* what the supervisor wrote on console.log / console.error
    sup,        \* "up", or "crashed" after an exception no handler caught
    raised,     \* the exception the last API call threw to its caller, or "none"
    last,       \* per call of start: the most recent invocation of its callback
    ncb,        \* per entry: invocations of pi.cb made by handleExit's listeners
    nacc,       \* per call of start: invocations of cb made by start itself
    nData,      \* number of 'data' chunks delivered so far
    killed,     \* entries whose process was sent a termination signal
    nStops,     \* number of calls of stop/stopall/restart made so far
    lastStop,   \* the most recent call of stop/stopall/restart
    given,      \* per call of start: the args and env the caller passed
    fed         \* per entry and stream: the text the child has written so far

vars == <<REG, calls, reads, child, op, er, appends, nextAppend, files, console,
          sup, raised, last, ncb, nacc, nData, killed, nStops, lastStop, given,
          fed>>

(***************************************************************************)
(* Bounds of the model.                                                    *)
(***************************************************************************)
\* calls of start
MaxStarts == 2
\* entries launched or being resolved, in the specifications that follow the
\* processes (Spec)
MaxProcs == 1
\* 'data' chunks delivered
MaxData == 1
\* calls of stop, restart and stopall
MaxStops == 1
\* 'data' chunks delivered where the line assembly is followed (SpecLines)
MaxChunks == 3

Ids == 1..MaxStarts

(***************************************************************************)
(* JavaScript values.  A value is a record [t, v]; undefined has t =       *)
(* "undefined".  Paths carry a sequence of characters, names and           *)
(* directories a string.                                                   *)
(***************************************************************************)
UndefPath == [t |-> "undefined", v |-> <<>>]
Path(s) == [t |-> "string", v |-> s]
UndefStr == [t |-> "undefined", v |-> ""]
Str(s) == [t |-> "string", v |-> s]
Num(s) == [t |-> "number", v |-> s]
\* an array of strings (args), and an object (env) named by a string
UndefArr == [t |-> "undefined", v |-> <<>>]
Arr(a) == [t |-> "array", v |-> a]
Obj(o) == [t |-> "object", v |-> o]

\* JavaScript truthiness of the values above: undefined, "" and 0 are falsy.
Truthy(x) ==
    /\ x.t # "undefined"
    /\ x.t = "string" => Len(x.v) > 0
    /\ x.t = "number" => x.v # "0"

(***************************************************************************)
(* path.extname, as child of getScriptHandler: the scan from the end of    *)
(* the path that Node's posix implementation performs.  Indices are the    *)
(* 0-based indices of the JavaScript code; p[i + 1] is the character at i. *)
(***************************************************************************)
RECURSIVE extnameScan(_, _, _)
extnameScan(p, i, st) ==
    IF i < 0 THEN st
    ELSE IF p[i + 1] = "/"
    THEN IF ~st.matchedSlash
         THEN [st EXCEPT !.startPart = i + 1]
         ELSE extnameScan(p, i - 1, st)
    ELSE LET s1 == IF st.end = -1
                   THEN [st EXCEPT !.matchedSlash = FALSE, !.end = i + 1]
                   ELSE st
             s2 == IF p[i + 1] = "."
                   THEN IF s1.startDot = -1 THEN [s1 EXCEPT !.startDot = i]
                        ELSE IF s1.preDotState # 1 THEN [s1 EXCEPT !.preDotState = 1]
                        ELSE s1
                   ELSE IF s1.startDot # -1 THEN [s1 EXCEPT !.preDotState = -1]
                        ELSE s1
         IN  extnameScan(p, i - 1, s2)

extname(p) ==
    LET st == extnameScan(p, Len(p) - 1,
                  [startDot |-> -1, startPart |-> 0, end |-> -1,
                   matchedSlash |-> TRUE, preDotState |-> 0])
    IN  IF \/ st.startDot = -1
           \/ st.end = -1
           \/ st.preDotState = 0
           \/ (st.preDotState = 1 /\ st.startDot = st.end - 1
                                  /\ st.startDot = st.startPart + 1)
        THEN <<>>
        ELSE SubSeq(p, st.startDot + 1, st.end)

\* getScriptHandler with a default: a script without extension is run as
\* JavaScript.
getScriptHandler_default(script) ==
    LET ext == extname(script)
    IN  IF ext = <<>> THEN "launchJSProcess"
        ELSE IF ext = <<".", "j", "s">> THEN "launchJSProcess"
        ELSE IF ext = <<".", "p", "y">> THEN "launchPythonProcess"
        ELSE "undefined"

\* The handler table of getScriptHandler; "undefined" when there is none.
getScriptHandler(script) ==
    LET ext == extname(script)
    IN  IF ext = <<>> THEN "undefined"
        ELSE IF ext = <<".", "j", "s">> THEN "launchJSProcess"
        ELSE IF ext = <<".", "p", "y">> THEN "launchPythonProcess"
        ELSE "undefined"

(***************************************************************************)
(* The inputs of start.                                                    *)
(***************************************************************************)
ScriptJs == <<"a", ".", "j", "s">>
ScriptPy == <<"s", ".", "p", "y">>
ScriptNoExt == <<".", "/", "t">>
ScriptRb == <<"c", ".", "r", "b">>
ScriptDot == <<".", "j", "s">>

Names == {Str("p"), Str("q")}
\* no script, the empty string, and a path of each kind
Scripts == {UndefPath, Path(<<>>), Path(ScriptJs), Path(ScriptPy), Path(ScriptNoExt),
            Path(ScriptRb), Path(ScriptDot)}
Cwds == {UndefStr, Str("dMain"), Str("dMainTxt"), Str("dBadJson"), Str("dNull"),
         Str("dNoFile"), Str("dNoMain"), Num("5")}
Logs == {UndefStr, Str("f.log")}
ArgX == <<"-", "x">>
Argss == {UndefArr, Arr(<<ArgX>>)}
Envs == {UndefStr, Obj("E")}

\* What fs.readFile and JSON.parse make of <cwd>/package.json:
\*   "ENOENT"  the file cannot be read,
\*   "invalid" the data is no JSON text (JSON.parse throws SyntaxError),
\*   "null"    the data parses to null (obj.main throws TypeError),
\*   "object"  the data parses to an object whose main is `main`.
Manifest(cwd) ==
    IF cwd = Str("dMain") THEN [kind |-> "object", main |-> Path(ScriptJs)]
    ELSE IF cwd = Str("dMainTxt") THEN [kind |-> "object", main |-> Path(ScriptNoExt)]
    ELSE IF cwd = Str("dNoMain") THEN [kind |-> "object", main |-> UndefPath]
    ELSE IF cwd = Str("dNull") THEN [kind |-> "null", main |-> UndefPath]
    ELSE IF cwd = Str("dBadJson") THEN [kind |-> "invalid", main |-> UndefPath]
    ELSE [kind |-> "ENOENT", main |-> UndefPath]

\* The arguments a caller callback is invoked with.
NoArg == [t |-> "none", m |-> "", s |-> <<>>]
ErrStr(m) == [t |-> "string", m |-> m, s |-> <<>>]
ErrDontKnow(script) == [t |-> "string", m |-> "Don't know how to start ", s |-> script]
ErrObj(m) == [t |-> "error", m |-> m, s |-> <<>>]

NoCall == [src |-> "none", arg |-> NoArg, op |-> <<>>, er |-> <<>>]

\* The state of a child process: not spawned, running, failed to launch
\* ('error' emitted), exited ('exit' emitted), closed ('close' emitted).
NoChild == [st |-> "none", fresh |-> TRUE, code |-> "null", signal |-> "null"]

\* JavaScript truthiness of an exit code or signal name as the child reports
\* it: null and 0 are falsy.
TruthyStatus(x) == x # "null" /\ x # "0"

(***************************************************************************)
(* Output capture.  A handler runs to completion; its effects on the entry *)
(* it serves are threaded through a record h:                              *)
(*   h.op, h.er      the accumulators of the entry,                        *)
(*   h.appends, h.nextAppend, h.console   the sinks,                       *)
(*   h.last, h.n, h.nacc   the callback invocations observed.              *)
(***************************************************************************)
\* The code unit of a character, for writing output text legibly.
Code(c) ==
    CASE c = "\t" -> 9 [] c = "\n" -> 10 [] c = "\f" -> 12 [] c = "\r" -> 13
      [] c = " " -> 32
      [] c = "a" -> 97 [] c = "b" -> 98 [] c = "c" -> 99 [] c = "d" -> 100
      [] c = "e" -> 101 [] c = "f" -> 102 [] c = "g" -> 103 [] c = "h" -> 104
      [] c = "i" -> 105

\* The text written as the one-character strings cs.
Text(cs) == [j \in 1..Len(cs) |-> Code(cs[j])]

\* The characters /[\n\r]/ matches: LF and CR.
IsSep(c) == c \in {10, 13}

\* The characters String.prototype.trim strips: the WhiteSpace of ECMAScript
\* (TAB, VT, FF, SP, NBSP, ZWNBSP and the Unicode space separators) and its
\* LineTerminators (LF, CR, LS, PS).
WhiteSpace ==
    {9, 11, 12, 32, 160, 65279, 5760, 8239, 8287, 12288} \cup (8192..8202)
    \cup {10, 13, 8232, 8233}

IsSpace(c) == c \in WhiteSpace

\* f.split(/[\n\r]+/): the segments between maximal runs of separators.
RECURSIVE splitFrom(_, _, _, _, _)
splitFrom(f, i, segs, cur, inRun) ==
    IF i > Len(f) THEN Append(segs, cur)
    ELSE IF IsSep(f[i])
    THEN IF inRun THEN splitFrom(f, i + 1, segs, cur, TRUE)
         ELSE splitFrom(f, i + 1, Append(segs, cur), <<>>, TRUE)
    ELSE splitFrom(f, i + 1, segs, Append(cur, f[i]), FALSE)

split(f) == splitFrom(f, 1, <<>>, <<>>, FALSE)

\* String.prototype.trim
RECURSIVE trimStart(_)
trimStart(f) ==
    IF f # <<>> /\ IsSpace(Head(f)) THEN trimStart(Tail(f)) ELSE f

RECURSIVE trimEnd(_)
trimEnd(f) ==
    IF f # <<>> /\ IsSpace(f[Len(f)]) THEN trimEnd(SubSeq(f, 1, Len(f) - 1)) ELSE f

trim(f) == trimEnd(trimStart(f))

\* out(pi, line, iserr): append to the log file when one is configured (the
\* request is answered later), else write on the supervisor's console.  A
\* record of the console tells who wrote it (by): `out` a line, or the
\* default callback of start (line 29) the error err it was called with.
out(h, pi, line, iserr) ==
    IF Truthy(pi.log)
    THEN [h EXCEPT !.appends = @ \cup {[n |-> h.nextAppend + 1, id |-> pi.id,
                                        path |-> pi.log.v, iserr |-> iserr,
                                        data |-> line \o <<10>>]},
                   !.nextAppend = @ + 1]
    ELSE [h EXCEPT !.console = Append(@, [id |-> pi.id,
                                          ch |-> IF iserr THEN "error" ELSE "log",
                                          by |-> "out",
                                          line |-> line, err |-> NoArg])]

\* The loop of show_lines_1 over lines[0 .. length-2].
RECURSIVE outLines(_, _, _, _, _)
outLines(h, pi, lines, i, iserr) ==
    IF i > Len(lines) - 1 THEN h
    ELSE outLines(out(h, pi, lines[i], iserr), pi, lines, i + 1, iserr)

\* show_lines_1 that puts out every segment and keeps no fragment.
show_lines_1_emitAll(h, pi, f, iserr) ==
    LET lines == split(f)
        h1 == IF f = <<>> THEN h ELSE outLines(h, pi, Append(lines, <<>>), 1, iserr)
    IN  IF iserr THEN [h1 EXCEPT !.er = <<>>] ELSE [h1 EXCEPT !.op = <<>>]

\* show_lines_1(f, iserr) on the stdout (iserr = FALSE) or stderr accumulator:
\* h after the lines were put out and the accumulator was set to what it returns.
show_lines_1(h, pi, f, iserr) ==
    LET lines == split(f)
        h1 == IF f = <<>> THEN h ELSE outLines(h, pi, lines, 1, iserr)
        rest == IF f = <<>> THEN f ELSE lines[Len(lines)]
    IN  IF iserr THEN [h1 EXCEPT !.er = rest] ELSE [h1 EXCEPT !.op = rest]

\* flush that leaves the accumulators as they are.
flush_keep(h, pi) ==
    LET h1 == IF h.op # <<>> /\ trim(h.op) # <<>>
              THEN out(h, pi, trim(h.op), FALSE) ELSE h
    IN  IF h1.er # <<>> /\ trim(h1.er) # <<>>
        THEN out(h1, pi, trim(h1.er), TRUE) ELSE h1

\* flush()
flush(h, pi) ==
    LET h1 == IF h.op # <<>> /\ trim(h.op) # <<>>
              THEN out(h, pi, trim(h.op), FALSE) ELSE h
        h2 == IF h1.er # <<>> /\ trim(h1.er) # <<>>
              THEN out(h1, pi, trim(h1.er), TRUE) ELSE h1
    IN  [h2 EXCEPT !.op = <<>>, !.er = <<>>]

\* An invocation of the callback cb of call id of start: the caller's
\* (cb = "caller"), or the default that line 29 puts in its place (cb =
\* "default"), which writes a truthy err on console.error.  It is invoked by
\* start itself (src = "start") or by a listener of handleExit through
\* pi.cb, and recorded with the accumulators as they are when it is made.
callCb(h, id, cb, src, arg) ==
    [h EXCEPT !.last = [src |-> src, arg |-> arg, op |-> h.op, er |-> h.er],
              !.n = IF src = "start" THEN @ ELSE @ + 1,
              !.nacc = IF src = "start" THEN @ + 1 ELSE @,
              !.console = IF cb = "default" /\ arg # NoArg
                          THEN Append(@, [id |-> id, ch |-> "error", by |-> "cb",
                                          line |-> <<>>, err |-> arg])
                          ELSE @]

\* The 'error' listener of handleExit.
on_error(h, pi, err) == callCb(flush(h, pi), pi.id, pi.cb, "error", ErrObj(err))

\* on_done_1 that looks at the exit code only.
on_done_1_codeOnly(h, pi, src, code, signal) ==
    LET h1 == flush(h, pi)
    IN  IF TruthyStatus(code)
        THEN callCb(h1, pi.id, pi.cb, src, ErrStr("Exited with error"))
        ELSE callCb(h1, pi.id, pi.cb, src, NoArg)

\* on_done_1 that calls back before it flushes.
on_done_1_cbFirst(h, pi, src, code, signal) ==
    IF TruthyStatus(code) \/ TruthyStatus(signal)
    THEN flush(callCb(h, pi.id, pi.cb, src, ErrStr("Exited with error")), pi)
    ELSE flush(callCb(h, pi.id, pi.cb, src, NoArg), pi)

\* on_done_1(code, signal), the 'exit' and the 'close' listener.
on_done_1(h, pi, src, code, signal) ==
    LET h1 == flush(h, pi)
    IN  IF TruthyStatus(code) \/ TruthyStatus(signal)
        THEN callCb(h1, pi.id, pi.cb, src, ErrStr("Exited with error"))
        ELSE callCb(h1, pi.id, pi.cb, src, NoArg)

(***************************************************************************)
(* Launching.                                                              *)
(***************************************************************************)
\* child_process.spawn and fork validate their options before anything is
\* spawned: a cwd option that is no string makes them throw a TypeError.
spawnThrows(pi) == Truthy(pi.cwd) /\ pi.cwd.t # "string"

\* launchPythonProcess(pi): pi after the launch.  pi.how, pi.argv and
\* pi.optsEnv record the request made to child_process: the function called,
\* the arguments the executable (python, or node for fork) is run with, and
\* the env option.
launchPythonProcess(pi) ==
    LET pi1 == [pi EXCEPT !.args = IF ~Truthy(pi.args) THEN Arr(<<pi._script.v>>)
                                   ELSE Arr(<<pi._script.v>> \o pi.args.v)]
    IN  IF spawnThrows(pi1)
        THEN [pi |-> pi1, thrown |-> TRUE]
        ELSE [pi |-> [pi1 EXCEPT !.how = "spawn",
                                 !.argv = pi1.args.v,
                                 !.optsEnv = IF Truthy(pi1.env) THEN pi1.env
                                             ELSE UndefStr],
              thrown |-> FALSE]

\* launchJSProcess(pi)
launchJSProcess(pi) ==
    LET pi1 == [pi EXCEPT !.args = IF ~Truthy(pi.args) THEN Arr(<<>>) ELSE pi.args]
    IN  IF spawnThrows(pi1)
        THEN [pi |-> pi1, thrown |-> TRUE]
        ELSE [pi |-> [pi1 EXCEPT !.how = "fork",
                                 !.argv = <<pi1._script.v>> \o pi1.args.v,
                                 !.optsEnv = IF Truthy(pi1.env) THEN pi1.env
                                             ELSE UndefStr],
              thrown |-> FALSE]

\* The callback of lines 43-58 with the entry put at the front of the
\* registry (unshift for push).
resolved_prepend(h, reg, rds, pi, script) ==
    LET pi1 == [pi EXCEPT !._script = script]
        handler == getScriptHandler(script.v)
        l == IF handler = "launchJSProcess" THEN launchJSProcess(pi1)
             ELSE launchPythonProcess(pi1)
    IN  IF ~Truthy(pi1._script)
        THEN [h |-> callCb(h, pi.id, pi.cb, "start", ErrStr("No script given to run")),
              reg |-> reg, reads |-> rds, launched |-> FALSE, thrown |-> FALSE]
        ELSE IF handler # "undefined"
        THEN IF l.thrown
             THEN [h |-> h, reg |-> <<l.pi>> \o reg, reads |-> rds,
                   launched |-> FALSE, thrown |-> TRUE]
             ELSE [h |-> callCb(h, pi.id, pi.cb, "start", NoArg), reg |-> <<l.pi>> \o reg,
                   reads |-> rds, launched |-> TRUE, thrown |-> FALSE]
        ELSE [h |-> callCb(h, pi.id, pi.cb, "start", ErrDontKnow(script.v)),
              reg |-> reg, reads |-> rds, launched |-> FALSE, thrown |-> FALSE]

\* The callback of lines 43-58 with a registry that holds the newest entry
\* only.
resolved_replace(h, reg, rds, pi, script) ==
    LET pi1 == [pi EXCEPT !._script = script]
        handler == getScriptHandler(script.v)
        l == IF handler = "launchJSProcess" THEN launchJSProcess(pi1)
             ELSE launchPythonProcess(pi1)
    IN  IF ~Truthy(pi1._script)
        THEN [h |-> callCb(h, pi.id, pi.cb, "start", ErrStr("No script given to run")),
              reg |-> reg, reads |-> rds, launched |-> FALSE, thrown |-> FALSE]
        ELSE IF handler # "undefined"
        THEN IF l.thrown
             THEN [h |-> h, reg |-> <<l.pi>>, reads |-> rds,
                   launched |-> FALSE, thrown |-> TRUE]
             ELSE [h |-> callCb(h, pi.id, pi.cb, "start", NoArg), reg |-> <<l.pi>>,
                   reads |-> rds, launched |-> TRUE, thrown |-> FALSE]
        ELSE [h |-> callCb(h, pi.id, pi.cb, "start", ErrDontKnow(script.v)),
              reg |-> reg, reads |-> rds, launched |-> FALSE, thrown |-> FALSE]

\* The callback start hands to get_script_1 (lines 43-58), run with the
\* resolved script: the handler-local record, the registry, the pending
\* reads, and whether a process was launched or the launch threw.
resolved(h, reg, rds, pi, script) ==
    LET pi1 == [pi EXCEPT !._script = script]
        handler == getScriptHandler(script.v)
        l == IF handler = "launchJSProcess" THEN launchJSProcess(pi1)
             ELSE launchPythonProcess(pi1)
    IN  IF ~Truthy(pi1._script)
        THEN [h |-> callCb(h, pi.id, pi.cb, "start", ErrStr("No script given to run")),
              reg |-> reg, reads |-> rds, launched |-> FALSE, thrown |-> FALSE]
        ELSE IF handler # "undefined"
        THEN IF l.thrown
             THEN [h |-> h, reg |-> Append(reg, l.pi), reads |-> rds,
                   launched |-> FALSE, thrown |-> TRUE]
             ELSE [h |-> callCb(h, pi.id, pi.cb, "start", NoArg), reg |-> Append(reg, l.pi),
                   reads |-> rds, launched |-> TRUE, thrown |-> FALSE]
        ELSE [h |-> callCb(h, pi.id, pi.cb, "start", ErrDontKnow(script.v)),
              reg |-> reg, reads |-> rds, launched |-> FALSE, thrown |-> FALSE]

\* The callback start works with (line 29): the caller's, or the default.
Cb(inp) == IF inp.hascb THEN "caller" ELSE "default"

\* The entry start builds from its parameters (lines 34-41): name, script,
\* cwd and log are copied; args and env are not, so the entry has none.
newPi(id, inp) ==
    [id |-> id, name |-> inp.name, script |-> inp.script, cwd |-> inp.cwd,
     log |-> inp.log, cb |-> Cb(inp), _script |-> UndefPath,
     args |-> UndefArr, env |-> UndefStr,
     how |-> "none", argv |-> <<>>, optsEnv |-> UndefStr]

Hof(i) ==
    [op |-> op[i], er |-> er[i], appends |-> appends, nextAppend |-> nextAppend,
     console |-> console, last |-> last[i], n |-> ncb[i], nacc |-> nacc[i]]

Commit(i, h) ==
    /\ op' = [op EXCEPT ![i] = h.op]
    /\ er' = [er EXCEPT ![i] = h.er]
    /\ appends' = h.appends
    /\ nextAppend' = h.nextAppend
    /\ console' = h.console
    /\ last' = [last EXCEPT ![i] = h.last]
    /\ ncb' = [ncb EXCEPT ![i] = h.n]
    /\ nacc' = [nacc EXCEPT ![i] = h.nacc]

Running == [st |-> "running", fresh |-> TRUE, code |-> "null", signal |-> "null"]

\* get_script_1(pi, cb), lines 70-84, up to its return: the script given,
\* or a request to read the manifest; what path.join throws is caught.
get_script_1(h, reg, rds, pi) ==
    IF Truthy(pi.script) THEN resolved(h, reg, rds, pi, pi.script)
    ELSE IF pi.cwd.t # "string" THEN resolved(h, reg, rds, pi, UndefPath)
    ELSE [h |-> h, reg |-> reg, reads |-> rds \cup {pi}, launched |-> FALSE,
          thrown |-> FALSE]

\* start whose check of 'script' and 'cwd' calls back but does not return.
startSync_fallThrough(h, reg, rds, id, inp) ==
    IF ~inp.present
    THEN [h |-> callCb(h, id, Cb(inp), "start",
                       ErrStr("Cannot start process without any information")),
          reg |-> reg, reads |-> rds, launched |-> FALSE, thrown |-> FALSE]
    ELSE get_script_1(IF ~Truthy(inp.script) /\ ~Truthy(inp.cwd)
                      THEN callCb(h, id, Cb(inp), "start",
                             ErrStr("Cannot start process without 'script' or 'cwd'"))
                      ELSE h,
                      reg, rds, newPi(id, inp))

\* start(pi, cb), lines 28-58, up to its return, as call number id.
startSync(h, reg, rds, id, inp) ==
    IF ~inp.present
    THEN [h |-> callCb(h, id, Cb(inp), "start",
                       ErrStr("Cannot start process without any information")),
          reg |-> reg, reads |-> rds, launched |-> FALSE, thrown |-> FALSE]
    ELSE IF ~Truthy(inp.script) /\ ~Truthy(inp.cwd)
    THEN [h |-> callCb(h, id, Cb(inp), "start",
                       ErrStr("Cannot start process without 'script' or 'cwd'")),
          reg |-> reg, reads |-> rds, launched |-> FALSE, thrown |-> FALSE]
    ELSE get_script_1(h, reg, rds, newPi(id, inp))

\* The callback of fs.readFile in get_script_1, lines 74-80, for the manifest
\* m.  Nothing catches what JSON.parse or obj.main throw there.
readFileCb(h, reg, rds, pi, m) ==
    IF m.kind = "ENOENT" THEN resolved(h, reg, rds, pi, UndefPath)
    ELSE IF m.kind = "object" THEN resolved(h, reg, rds, pi, m.main)
    ELSE [h |-> h, reg |-> reg, reads |-> rds, launched |-> FALSE, thrown |-> TRUE]

\* The outcome r of a handler becomes the next state; an exception it threw
\* goes to the caller of start (sync) or, in the readFile callback, to nobody.
CommitResolved(id, r, sync) ==
    /\ Commit(id, r.h)
    /\ REG' = r.reg
    /\ reads' = r.reads
    /\ child' = IF r.launched THEN [child EXCEPT ![id] = Running] ELSE child
    /\ raised' = IF sync THEN (IF r.thrown THEN "TypeError" ELSE "none") ELSE raised
    /\ sup' = IF ~sync /\ r.thrown THEN "crashed" ELSE sup

(***************************************************************************)
(* The operations.                                                         *)
(***************************************************************************)
\* start(pi, cb): the parameters (present: pi was passed) and whether a
\* callback was passed (hascb).
StartInputs ==
    [present : {TRUE}, name : Names, script : Scripts, cwd : Cwds, log : Logs,
     args : Argss, env : Envs, hascb : BOOLEAN]
    \cup [present : {FALSE}, name : {UndefStr}, script : {UndefPath},
          cwd : {UndefStr}, log : {UndefStr}, args : {UndefArr}, env : {UndefStr},
          hascb : BOOLEAN]

\* The inputs that pass neither args nor env.
PlainInputs == {inp \in StartInputs : inp.args = UndefArr /\ inp.env = UndefStr}

\* The inputs of start where start alone is followed (SpecStart): every
\* script and working directory, or no parameters; one name, no log file
\* (start reads neither); with a callback, and without one for a start of
\* each kind that src/test.js makes without (no parameters, neither script
\* nor cwd, a cwd without manifest, a script without extension).
ScriptInputs ==
    {inp \in PlainInputs :
        /\ inp.present => (inp.name = Str("p") /\ inp.log = UndefStr)
        /\ \/ inp.hascb
           \/ ~inp.present
           \/ inp.script = UndefPath /\ inp.cwd \in {UndefStr, Str("dNoFile")}
           \/ inp.script = Path(ScriptNoExt) /\ inp.cwd = UndefStr}

\* The inputs of start where the processes are followed (SpecRun): one name,
\* a script of each kind, or a working directory whose manifest names one;
\* with a callback, and without one for a script whose output goes to the
\* console.
RunInputs ==
    {inp \in PlainInputs :
        /\ inp.present
        /\ inp.name = Str("p")
        /\ \/ inp.script \in {Path(ScriptJs), Path(ScriptPy)} /\ inp.cwd = UndefStr
           \/ inp.script = UndefPath /\ inp.cwd = Str("dMain")
        /\ \/ inp.hascb
           \/ inp.script = Path(ScriptJs) /\ inp.log = UndefStr}

\* The inputs of start where the registry is searched by name (SpecStop):
\* every name, a script of each kind, no log file, a callback.
StopInputs ==
    {inp \in PlainInputs :
        /\ inp.present
        /\ inp.hascb
        /\ inp.log = UndefStr
        /\ inp.script \in {Path(ScriptJs), Path(ScriptPy)}
        /\ inp.cwd = UndefStr}

\* The inputs of start where the launch request is followed (SpecArgs): a
\* script of each kind or a manifest that names one, with and without args
\* and env.
ArgInputs ==
    {inp \in StartInputs :
        /\ inp.present
        /\ inp.hascb
        /\ inp.name = Str("p")
        /\ inp.log = UndefStr
        /\ \/ inp.script \in {Path(ScriptJs), Path(ScriptPy)} /\ inp.cwd = UndefStr
           \/ inp.script = UndefPath /\ inp.cwd = Str("dMain")}

ExitStatuses ==
    {[code |-> "0", signal |-> "null"], [code |-> "1", signal |-> "null"],
     [code |-> "null", signal |-> "SIGTERM"]}

Chunks == {Text(<<"a">>), Text(<<"a", "\n", "b", "\n">>), Text(<<" ">>)}

\* The chunks where the line assembly is followed (SpecLines): the three
\* chunks of "abc\ndef\r\nghi", a "\r\n" cut in two, blank text, and text
\* between a form feed and a no-break space.
LineChunks ==
    {Text(<<"a", "b">>),
     Text(<<"c", "\n", "d", "e", "f", "\r", "\n">>),
     Text(<<"g", "h", "i">>),
     Text(<<"a", "\r">>),
     Text(<<"\n", "b">>),
     Text(<<" ">>),
     <<12, 97, 160>>}

\* The starts of the entry whose output is followed in SpecLines, with and
\* without a callback; its lines go to the console.
LineInputs ==
    {inp \in PlainInputs :
        /\ inp.present
        /\ inp.name = Str("p")
        /\ inp.script = Path(ScriptJs)
        /\ inp.cwd = UndefStr
        /\ inp.log = UndefStr}

LogPaths == {l.v : l \in Logs \ {UndefStr}}

Init ==
    /\ REG = <<>>
    /\ calls = 0
    /\ reads = {}
    /\ child = [i \in Ids |-> NoChild]
    /\ op = [i \in Ids |-> <<>>]
    /\ er = [i \in Ids |-> <<>>]
    /\ appends = {}
    /\ nextAppend = 0
    /\ files = [f \in LogPaths |-> <<>>]
    /\ console = <<>>
    /\ sup = "up"
    /\ raised = "none"
    /\ last = [i \in Ids |-> NoCall]
    /\ ncb = [i \in Ids |-> 0]
    /\ nacc = [i \in Ids |-> 0]
    /\ nData = 0
    /\ killed = {}
    /\ nStops = 0
    /\ lastStop = [op |-> "none", name |-> UndefStr, hascb |-> FALSE,
                   applied |-> <<>>, ncb |-> 0]
    /\ given = [i \in Ids |-> [args |-> UndefArr, env |-> UndefStr]]
    /\ fed = [i \in Ids |-> [out |-> <<>>, err |-> <<>>]]

\* A call of start(pi, cb), up to the point where it returns: everything but
\* the answer of fs.readFile.
start(inp) ==
    /\ sup = "up"
    /\ calls < MaxStarts
    /\ calls' = calls + 1
    /\ CommitResolved(calls + 1,
                      startSync(Hof(calls + 1), REG, reads, calls + 1, inp), TRUE)
    /\ given' = [given EXCEPT ![calls + 1] = [args |-> inp.args, env |-> inp.env]]
    /\ UNCHANGED <<files, nData, killed, nStops, lastStop, fed>>

\* fs.readFile answers the request made for pi.
readFileDone(pi) ==
    /\ sup = "up"
    /\ pi \in reads
    /\ CommitResolved(pi.id,
                      readFileCb(Hof(pi.id), REG, reads \ {pi}, pi, Manifest(pi.cwd)),
                      FALSE)
    /\ UNCHANGED <<calls, files, nData, killed, nStops, lastStop, given, fed>>

\* A chunk arrives on the stdout (iserr = FALSE) or stderr of the child of
\* REG[k]: the 'data' listeners of captureOutput (lines 187-194).
childData(k, chunk, iserr) ==
    /\ sup = "up"
    /\ k \in 1..Len(REG)
    /\ child[REG[k].id].st \in {"running", "exited"}
    /\ LET pi == REG[k]
           h == Hof(pi.id)
           f == IF iserr THEN h.er \o chunk ELSE h.op \o chunk
       IN  Commit(pi.id, show_lines_1(h, pi, f, iserr))
    /\ child' = [child EXCEPT ![REG[k].id].fresh = FALSE]
    /\ nData' = nData + 1
    /\ fed' = [fed EXCEPT ![REG[k].id] =
                  IF iserr THEN [@ EXCEPT !.err = @ \o chunk]
                  ELSE [@ EXCEPT !.out = @ \o chunk]]
    /\ UNCHANGED <<REG, calls, reads, files, sup, raised, killed, nStops, lastStop,
                   given>>

\* The child could not be launched: 'error' (lines 246-249).
childError(k) ==
    /\ sup = "up"
    /\ k \in 1..Len(REG)
    /\ child[REG[k].id].st = "running"
    /\ child[REG[k].id].fresh
    /\ Commit(REG[k].id, on_error(Hof(REG[k].id), REG[k], "ENOENT"))
    /\ child' = [child EXCEPT ![REG[k].id] =
                    [st |-> "failed", fresh |-> FALSE, code |-> "-2", signal |-> "null"]]
    /\ UNCHANGED <<REG, calls, reads, files, sup, raised, nData, killed, nStops,
                   lastStop, given, fed>>

\* The child ended: 'exit' with its exit code or the signal that ended it.
childExit(k, status) ==
    /\ sup = "up"
    /\ k \in 1..Len(REG)
    /\ child[REG[k].id].st = "running"
    /\ Commit(REG[k].id,
              on_done_1(Hof(REG[k].id), REG[k], "exit", status.code, status.signal))
    /\ child' = [child EXCEPT ![REG[k].id] =
                    [st |-> "exited", fresh |-> FALSE, code |-> status.code,
                     signal |-> status.signal]]
    /\ UNCHANGED <<REG, calls, reads, files, sup, raised, nData, killed, nStops,
                   lastStop, given, fed>>

\* The streams of an ended (or never launched) child are closed: 'close',
\* with the code and signal the child ended with.
childClose(k) ==
    /\ sup = "up"
    /\ k \in 1..Len(REG)
    /\ child[REG[k].id].st \in {"exited", "failed"}
    /\ Commit(REG[k].id,
              on_done_1(Hof(REG[k].id), REG[k], "close", child[REG[k].id].code,
                        child[REG[k].id].signal))
    /\ child' = [child EXCEPT ![REG[k].id].st = "closed"]
    /\ UNCHANGED <<REG, calls, reads, files, sup, raised, nData, killed, nStops,
                   lastStop, given, fed>>

\* fs.appendFile answers one of the requests of `out` (lines 221-226).  On an
\* error the callback evaluates `m`, which no scope defines: a ReferenceError
\* that nothing catches.
appendDone(a, ok) ==
    /\ sup = "up"
    /\ a \in appends
    /\ appends' = appends \ {a}
    /\ IF ok
       THEN /\ files' = [files EXCEPT ![a.path] =
                            Append(@, [n |-> a.n, id |-> a.id, iserr |-> a.iserr,
                                       data |-> a.data])]
            /\ sup' = sup
       ELSE /\ files' = files
            /\ sup' = "crashed"
    /\ UNCHANGED <<REG, calls, reads, child, op, er, nextAppend, console, raised,
                   last, ncb, nacc, nData, killed, nStops, lastStop, given, fed>>

(***************************************************************************)
(* stop, restart, stopall.  s.killed: the entries whose process got a      *)
(* termination signal; s.applied: the entries the action was applied to.   *)
(***************************************************************************)
\* stop(pi), lines 110-111: the body is empty.
stop(s, pi) == [s EXCEPT !.applied = Append(@, pi.id)]

\* restart(pi), lines 107-108: the body is empty.
restart(s, pi) == [s EXCEPT !.applied = Append(@, pi.id)]

\* stopByName that stops the first entry of the name only.
RECURSIVE stopEach_first(_, _, _)
stopEach_first(s, name, k) ==
    IF k > Len(REG) THEN s
    ELSE IF REG[k].name = name THEN stop(s, REG[k])
    ELSE stopEach_first(s, name, k + 1)

\* REG.forEach of stopByName, from index k on.
RECURSIVE stopEach(_, _, _)
stopEach(s, name, k) ==
    IF k > Len(REG) THEN s
    ELSE stopEach(IF REG[k].name = name THEN stop(s, REG[k]) ELSE s, name, k + 1)

\* REG.forEach of restartByName, from index k on.
RECURSIVE restartEach(_, _, _)
restartEach(s, name, k) ==
    IF k > Len(REG) THEN s
    ELSE restartEach(IF REG[k].name = name THEN restart(s, REG[k]) ELSE s, name, k + 1)

\* REG.forEach(stop) of stopall, from index k on.
RECURSIVE stopAllFrom(_, _)
stopAllFrom(s, k) ==
    IF k > Len(REG) THEN s ELSE stopAllFrom(stop(s, REG[k]), k + 1)

NoStops == [killed |-> killed, applied |-> <<>>]

\* stop(name, callback?) of the module's interface: stopByName, which takes
\* the name only.
stopByName(name, hascb) ==
    /\ sup = "up"
    /\ nStops < MaxStops
    /\ nStops' = nStops + 1
    /\ LET s == stopEach(NoStops, name, 1)
       IN  /\ killed' = s.killed
           /\ lastStop' = [op |-> "stop", name |-> name, hascb |-> hascb,
                           applied |-> s.applied, ncb |-> 0]
    /\ raised' = "none"
    /\ UNCHANGED <<REG, calls, reads, child, op, er, appends, nextAppend, files,
                   console, sup, last, ncb, nacc, nData, given, fed>>

restartByName(name) ==
    /\ sup = "up"
    /\ nStops < MaxStops
    /\ nStops' = nStops + 1
    /\ LET s == restartEach(NoStops, name, 1)
       IN  /\ killed' = s.killed
           /\ lastStop' = [op |-> "restart", name |-> name, hascb |-> FALSE,
                           applied |-> s.applied, ncb |-> 0]
    /\ raised' = "none"
    /\ UNCHANGED <<REG, calls, reads, child, op, er, appends, nextAppend, files,
                   console, sup, last, ncb, nacc, nData, given, fed>>

stopall ==
    /\ sup = "up"
    /\ nStops < MaxStops
    /\ nStops' = nStops + 1
    /\ LET s == stopAllFrom(NoStops, 1)
       IN  /\ killed' = s.killed
           /\ lastStop' = [op |-> "stopall", name |-> UndefStr, hascb |-> FALSE,
                           applied |-> s.applied, ncb |-> 0]
    /\ raised' = "none"
    /\ UNCHANGED <<REG, calls, reads, child, op, er, appends, nextAppend, files,
                   console, sup, last, ncb, nacc, nData, given, fed>>

\* start with every input; args and env, which start does not read, with
\* the inputs of ArgInputs.
Next ==
    \/ \E inp \in PlainInputs \cup ArgInputs :
          Len(REG) + Cardinality(reads) < MaxProcs /\ start(inp)
    \/ \E pi \in reads : readFileDone(pi)
    \/ \E k \in 1..Len(REG), c \in Chunks, iserr \in BOOLEAN :
          nData < MaxData /\ childData(k, c, iserr)
    \/ \E k \in 1..Len(REG) : childError(k)
    \/ \E k \in 1..Len(REG), st \in ExitStatuses : childExit(k, st)
    \/ \E k \in 1..Len(REG) : childClose(k)
    \/ \E a \in appends, ok \in BOOLEAN : appendDone(a, ok)
    \/ \E name \in Names : stopByName(name, TRUE)
    \/ \E name \in Names : restartByName(name)
    \/ stopall

Spec == Init /\ [][Next]_vars

(***************************************************************************)
(* The specifications the properties are checked under: each is Spec with  *)
(* the operations and the inputs the property is about.                    *)
(***************************************************************************)
\* start alone, over every script and working directory.
NextStart ==
    \/ \E inp \in ScriptInputs : start(inp)
    \/ \E pi \in reads : readFileDone(pi)

SpecStart == Init /\ [][NextStart]_vars

\* The processes of at most MaxProcs entries, from start to 'close', with
\* their output.
NextRun ==
    \/ \E inp \in RunInputs :
          Len(REG) + Cardinality(reads) < MaxProcs /\ start(inp)
    \/ \E pi \in reads : readFileDone(pi)
    \/ \E k \in 1..Len(REG), c \in Chunks, iserr \in BOOLEAN :
          nData < MaxData /\ childData(k, c, iserr)
    \/ \E k \in 1..Len(REG) : childError(k)
    \/ \E k \in 1..Len(REG), st \in ExitStatuses : childExit(k, st)
    \/ \E k \in 1..Len(REG) : childClose(k)
    \/ \E a \in appends, ok \in BOOLEAN : appendDone(a, ok)

SpecRun == Init /\ [][NextRun]_vars

\* The registry and the operations that search it, with the end of the
\* processes but without their output.
NextStop ==
    \/ \E inp \in StopInputs : start(inp)
    \/ \E k \in 1..Len(REG), st \in ExitStatuses : childExit(k, st)
    \/ \E k \in 1..Len(REG) : childClose(k)
    \/ \E name \in Names : stopByName(name, TRUE)
    \/ \E name \in Names : restartByName(name)
    \/ stopall

SpecStop == Init /\ [][NextStop]_vars

\* start with caller-supplied args and env, up to the launch request.
NextArgs ==
    \/ \E inp \in ArgInputs : start(inp)
    \/ \E pi \in reads : readFileDone(pi)

SpecArgs == Init /\ [][NextArgs]_vars

\* The output of one entry, chunk by chunk, up to the end of its process.
NextLines ==
    \/ \E inp \in LineInputs : calls = 0 /\ start(inp)
    \/ \E k \in 1..Len(REG), c \in LineChunks, iserr \in BOOLEAN :
          nData < MaxChunks /\ childData(k, c, iserr)
    \/ \E k \in 1..Len(REG), st \in ExitStatuses : childExit(k, st)
    \/ \E k \in 1..Len(REG) : childClose(k)

SpecLines == Init /\ [][NextLines]_vars

(***************************************************************************)
(* Properties.                                                             *)
(***************************************************************************)
Range(f) == {f[x] : x \in DOMAIN f}

\* The child of call i has emitted 'error', 'exit' or 'close'.
Ended(i) == child[i].st \in {"failed", "exited", "closed"}

\* C1: for any sequence of 'error', 'exit' and 'close' events delivered to
\* one entry, the completion callback of the entry fires exactly once: once
\* the first event was handled, the listeners of handleExit have invoked
\* pi.cb once, and no later event invokes it again.
C1_ExactlyOnce == \A i \in Ids : Ended(i) => ncb[i] = 1

\* C2: the registry holds no entry whose launch failed: none whose spawn
\* step threw (no child was created) and none whose child reported a launch
\* fault by its 'error' event.
C2_NoFailedLaunchInRegistry ==
    \A k \in 1..Len(REG) :
        /\ REG[k].how # "none"
        /\ child[REG[k].id].code # "-2"

\* C3: when the manifest of a start with a working directory and no script
\* cannot be read or parsed, the answer of the read calls back 'No script
\* given to run', spawns nothing, leaves the registry as it is, and the
\* supervisor stays up.
C3_ManifestFailureSwallowed ==
    [][\A pi \in reads :
          (pi \notin reads' /\ Manifest(pi.cwd).kind \in {"ENOENT", "invalid", "null"})
          => /\ last'[pi.id].src = "start"
             /\ last'[pi.id].arg = ErrStr("No script given to run")
             /\ REG' = REG
             /\ child' = child
             /\ sup' = "up"]_vars

\* C4: a failed append to a log file does not throw, does not end the
\* supervisor, reaches no caller callback, and leaves the entries, their
\* processes and the registry as they are.
C4_AppendFailureContained ==
    [][(\E a \in appends : appends' = appends \ {a})
          => /\ sup' = "up"
             /\ REG' = REG
             /\ child' = child
             /\ last' = last
             /\ ncb' = ncb]_vars

\* C5: a call of start without parameters, or with parameters that have
\* neither script nor cwd, invokes the callback with a configuration error
\* before it returns, spawns nothing and requests nothing, leaves the
\* registry unchanged, and the callback of that call is never invoked again.
ConfigErrors ==
    {ErrStr("Cannot start process without any information"),
     ErrStr("Cannot start process without 'script' or 'cwd'")}

C5_Inputs ==
    {inp \in ScriptInputs :
        ~inp.present \/ (inp.script \in {UndefPath, Path(<<>>)} /\ inp.cwd = UndefStr)}

C5_Rejects(inp) ==
    start(inp)
    => /\ last'[calls + 1].src = "start"
       /\ last'[calls + 1].arg \in ConfigErrors
       /\ nacc'[calls + 1] = 1
       /\ REG' = REG
       /\ reads' = reads
       /\ child' = child
       /\ raised' = "none"

C5_ConfigErrorSynchronous ==
    /\ [][calls' # calls => \A inp \in C5_Inputs : C5_Rejects(inp)]_vars
    /\ [](\A i \in Ids : last[i].arg \in ConfigErrors => nacc[i] + ncb[i] = 1)

C5_Witness ==
    \E i \in Ids :
        /\ last[i].src = "start"
        /\ last[i].arg = ErrStr("Cannot start process without 'script' or 'cwd'")
        /\ nacc[i] = 1
        /\ REG = <<>>

\* C6: a start whose resolved script (the script given, or the main of the
\* manifest) has no extension or an extension other than .js and .py calls
\* back "Don't know how to start <script>", once, spawns nothing and leaves
\* the size of the registry unchanged.
UnknownExt(p) == extname(p) \notin {<<".", "j", "s">>, <<".", "p", "y">>}

C6_Outcome(id, script) ==
    /\ last'[id].src = "start"
    /\ last'[id].arg = [t |-> "string", m |-> "Don't know how to start ", s |-> script]
    /\ nacc'[id] = 1
    /\ Len(REG') = Len(REG)
    /\ child' = child

C6_Inputs ==
    {inp \in ScriptInputs :
        /\ inp.present
        /\ inp.script.t = "string"
        /\ inp.script.v # <<>>
        /\ UnknownExt(inp.script.v)}

C6_UnknownExtensionRejected ==
    [][/\ calls' # calls
          => \A inp \in C6_Inputs :
                start(inp) => C6_Outcome(calls + 1, inp.script.v)
       /\ \A pi \in reads :
             (/\ pi \notin reads'
              /\ Manifest(pi.cwd).kind = "object"
              /\ Manifest(pi.cwd).main.t = "string"
              /\ Manifest(pi.cwd).main.v # <<>>
              /\ UnknownExt(Manifest(pi.cwd).main.v))
             => C6_Outcome(pi.id, Manifest(pi.cwd).main.v)]_vars

C6_Witness ==
    \E i \in Ids :
        /\ last[i].src = "start"
        /\ last[i].arg.m = "Don't know how to start "
        /\ last[i].arg.s = ScriptNoExt
        /\ nacc[i] = 1
        /\ \A k \in 1..Len(REG) : REG[k].id # i

\* C7: stopByName(name) terminates the process of every registered entry
\* of that name, and stopall that of every entry: after the call each such
\* running process has been sent a signal to end.
C7_StopSignalsProcess ==
    [][/\ \A name \in Names :
             stopByName(name, TRUE)
             => \A k \in 1..Len(REG) :
                   (REG[k].name = name /\ child[REG[k].id].st = "running")
                   => REG[k].id \in killed'
       /\ stopall
             => \A k \in 1..Len(REG) :
                   child[REG[k].id].st = "running" => REG[k].id \in killed']_vars

\* C8: when stop(name, callback) is called with a name no registered entry
\* has (the process was never started), the callback is invoked with an
\* error.
C8_StopUnknownNameCallsBack ==
    (/\ lastStop.op = "stop"
     /\ lastStop.hascb
     /\ lastStop.applied = <<>>)
    => lastStop.ncb >= 1

\* C9: the outcome the completion callback is invoked with is determined by
\* the event: the error object for 'error'; 'Exited with error' for an
\* 'exit' or 'close' that carries a non-zero exit code or a signal; nothing
\* for an 'exit' or 'close' with exit code zero (or none) and no signal.
C9_Expected(code, signal) ==
    IF code \notin {"0", "null"} \/ signal # "null"
    THEN [t |-> "string", m |-> "Exited with error", s |-> <<>>]
    ELSE [t |-> "none", m |-> "", s |-> <<>>]

C9_OutcomeByEvent ==
    [][\A i \in Ids :
          /\ (child[i].st = "running" /\ child'[i].st = "failed")
             => /\ last'[i].src = "error"
                /\ last'[i].arg = [t |-> "error", m |-> "ENOENT", s |-> <<>>]
                /\ ncb'[i] = ncb[i] + 1
          /\ (child[i].st = "running" /\ child'[i].st = "exited")
             => /\ last'[i].src = "exit"
                /\ last'[i].arg = C9_Expected(child'[i].code, child'[i].signal)
                /\ ncb'[i] = ncb[i] + 1
          /\ (child[i].st # "closed" /\ child'[i].st = "closed")
             => /\ last'[i].src = "close"
                /\ last'[i].arg = C9_Expected(child[i].code, child[i].signal)
                /\ ncb'[i] = ncb[i] + 1]_vars

C9_Witness ==
    \E i \in Ids :
        /\ child[i].st = "exited"
        /\ child[i].signal = "SIGTERM"
        /\ last[i].src = "exit"
        /\ last[i].arg = ErrStr("Exited with error")

\* C10: the completion callback fires after the buffered output of the
\* entry was flushed: whenever a listener of handleExit invokes it, both
\* accumulators are empty at the invocation and after it, and what the
\* accumulators held (trimmed, when not blank) has been put out, stdout
\* before stderr; what the default callback writes on the console comes
\* after these lines.
Flushed(i) ==
    (IF trim(op[i]) # <<>> THEN <<[line |-> trim(op[i]), iserr |-> FALSE]>> ELSE <<>>)
    \o (IF trim(er[i]) # <<>> THEN <<[line |-> trim(er[i]), iserr |-> TRUE]>> ELSE <<>>)

C10_FlushBeforeCallback ==
    [][\A k \in 1..Len(REG) :
          LET i == REG[k].id
              said == IF REG[k].cb = "default" /\ last'[i].arg # NoArg
                      THEN <<[id |-> i, ch |-> "error", by |-> "cb", line |-> <<>>,
                              err |-> last'[i].arg]>>
                      ELSE <<>>
          IN  ncb'[i] > ncb[i]
              => /\ last'[i].op = <<>> /\ last'[i].er = <<>>
                 /\ op'[i] = <<>> /\ er'[i] = <<>>
                 /\ IF REG[k].log = UndefStr
                    THEN /\ Len(console') = Len(console) + Len(Flushed(i)) + Len(said)
                         /\ \A j \in 1..Len(Flushed(i)) :
                               /\ console'[Len(console) + j].id = i
                               /\ console'[Len(console) + j].by = "out"
                               /\ console'[Len(console) + j].line = Flushed(i)[j].line
                               /\ console'[Len(console) + j].ch =
                                     (IF Flushed(i)[j].iserr THEN "error" ELSE "log")
                         /\ SubSeq(console', Len(console) + Len(Flushed(i)) + 1,
                                   Len(console')) = said
                    ELSE /\ console' = console \o said
                         /\ nextAppend' = nextAppend + Len(Flushed(i))
                         /\ \A j \in 1..Len(Flushed(i)) :
                               \E a \in appends' :
                                  /\ a.n = nextAppend + j
                                  /\ a.id = i
                                  /\ a.data = Flushed(i)[j].line \o <<10>>]_vars

C10_Witness ==
    \E i \in Ids :
        /\ ncb[i] = 1
        /\ last[i].src = "exit"
        /\ nData = 1
        /\ console = <<[id |-> i, ch |-> "error", by |-> "out",
                         line |-> Text(<<"a">>), err |-> NoArg]>>

\* C11: the registry grows only by an accepted start, which appends the
\* entry and requests the spawn before it invokes the start callback with
\* zero arguments: every step that lengthens the registry appends one entry
\* whose process was requested and makes the acceptance invocation of that
\* entry, every acceptance invocation is made with the entry appended, and
\* a listener of handleExit invokes the callback of an entry only after its
\* acceptance invocation.
C11_AcceptThenTerminal ==
    [][/\ REG' # REG
          => /\ Len(REG') = Len(REG) + 1
             /\ SubSeq(REG', 1, Len(REG)) = REG
             /\ LET pi == REG'[Len(REG')]
                IN  /\ pi.how \in {"fork", "spawn"}
                    /\ child'[pi.id].st = "running"
                    /\ last'[pi.id].src = "start"
                    /\ last'[pi.id].arg = NoArg
                    /\ nacc'[pi.id] = nacc[pi.id] + 1
                    /\ ncb'[pi.id] = 0
       /\ \A i \in Ids :
             (nacc'[i] > nacc[i] /\ last'[i].arg = NoArg)
             => /\ Len(REG') = Len(REG) + 1
                /\ REG'[Len(REG')].id = i
       /\ \A i \in Ids : ncb'[i] > ncb[i] => nacc[i] = 1]_vars

\* C12: the lines of one stream of one entry reach the log file in the order
\* in which the line assembler put them out: of two lines of the same entry
\* and stream in a log file, the one put out first (the lower request
\* number) comes first.  (Lines for the console are written synchronously by
\* `out` and cannot overtake each other.)
C12_LogOrder ==
    \A f \in LogPaths :
        \A j, k \in 1..Len(files[f]) :
            (/\ j < k
             /\ files[f][j].id = files[f][k].id
             /\ files[f][j].iserr = files[f][k].iserr)
            => files[f][j].n < files[f][k].n

\* C13: an accepted start that carries args or env launches the process
\* with the script path followed by exactly the caller's args as its
\* arguments, and with the caller's env.
C13_ArgsAndEnvPassed ==
    \A k \in 1..Len(REG) :
        LET pi == REG[k]
            g == given[pi.id]
        IN  (pi.how # "none" /\ (Truthy(g.args) \/ Truthy(g.env)))
            => /\ pi.argv = <<pi._script.v>>
                              \o (IF Truthy(g.args) THEN g.args.v ELSE <<>>)
               /\ pi.optsEnv = g.env

\* The lines `out` wrote for entry i on console.log (ch = "log") or
\* console.error (ch = "error"), in order.
RECURSIVE LinesOn(_, _, _)
LinesOn(c, i, ch) ==
    IF c = <<>> THEN <<>>
    ELSE (IF Head(c).id = i /\ Head(c).ch = ch /\ Head(c).by = "out"
          THEN <<Head(c).line>> ELSE <<>>)
         \o LinesOn(Tail(c), i, ch)

RECURSIVE Concat(_)
Concat(ss) == IF ss = <<>> THEN <<>> ELSE Head(ss) \o Concat(Tail(ss))

\* f without its newlines and carriage returns
RECURSIVE Strip(_)
Strip(f) ==
    IF f = <<>> THEN <<>>
    ELSE (IF IsSep(Head(f)) THEN <<>> ELSE <<Head(f)>>) \o Strip(Tail(f))

\* the text of f after its last newline or carriage return
RECURSIVE AfterLastSep(_)
AfterLastSep(f) ==
    IF f = <<>> \/ IsSep(f[Len(f)]) THEN <<>>
    ELSE Append(AfterLastSep(SubSeq(f, 1, Len(f) - 1)), f[Len(f)])

\* One stream of an entry before any flush: `text` is what arrived, `lines`
\* what was put out, `acc` the accumulator.
C14_Assembled(text, lines, acc) ==
    /\ acc = AfterLastSep(text)
    /\ Concat(lines) \o acc = Strip(text)
    /\ Len(lines) <= Len(text) - Len(Strip(text))

C14_Example ==
    Text(<<"a", "b", "c", "\n", "d", "e", "f", "\r", "\n", "g", "h", "i">>)

\* C14: line assembly.  Until the first flush of an entry, on each of its
\* streams: the accumulator is the text that arrived after the last newline
\* or carriage return; the lines put out, in order and on the channel of the
\* stream, followed by the accumulator are the text that arrived without its
\* separators; and there are no more lines than separators arrived.  The
\* first flush puts out the (trimmed, non-blank) accumulators and nothing
\* else.  For the chunks "ab", "c\ndef\r\n", "ghi" on stdout: the lines are
\* "abc", "def" and the accumulator is "ghi".
C14_LineAssembly ==
    /\ [](\A i \in Ids :
            ncb[i] = 0
            => /\ C14_Assembled(fed[i].out, LinesOn(console, i, "log"), op[i])
               /\ C14_Assembled(fed[i].err, LinesOn(console, i, "error"), er[i])
               /\ fed[i].out = C14_Example
                  => /\ LinesOn(console, i, "log")
                        = <<Text(<<"a", "b", "c">>), Text(<<"d", "e", "f">>)>>
                     /\ op[i] = Text(<<"g", "h", "i">>))
    /\ [][\A i \in Ids :
            (ncb[i] = 0 /\ ncb'[i] = 1)
            => /\ LinesOn(console', i, "log") =
                     LinesOn(console, i, "log")
                     \o (IF trim(op[i]) # <<>> THEN <<trim(op[i])>> ELSE <<>>)
               /\ LinesOn(console', i, "error") =
                     LinesOn(console, i, "error")
                     \o (IF trim(er[i]) # <<>> THEN <<trim(er[i])>> ELSE <<>>)]_vars

C14_Witness ==
    \E i \in Ids :
        /\ fed[i].out = C14_Example
        /\ nData = 3
        /\ ncb[i] = 0
        /\ LinesOn(console, i, "log")
                        = <<Text(<<"a", "b", "c">>), Text(<<"d", "e", "f">>)>>
        /\ op[i] = Text(<<"g", "h", "i">>)

\* What a handler record shows of the sinks.
C15_Sinks(h) == <<h.console, h.appends, h.nextAppend>>

\* C15: flush is idempotent.  In every state of every entry, also after its
\* process has ended: a flush that follows a flush puts out nothing and
\* changes nothing, and a flush with empty or blank accumulators puts out
\* nothing.  The listener of an 'exit' or 'close' that finds both
\* accumulators empty or blank writes nothing.
C15_FlushIdempotent ==
    /\ [](\A k \in 1..Len(REG) :
            LET pi == REG[k]
                h == Hof(pi.id)
                h1 == flush(h, pi)
            IN  /\ flush(h1, pi) = h1
                /\ (trim(h.op) = <<>> /\ trim(h.er) = <<>>)
                   => C15_Sinks(h1) = C15_Sinks(h))
    /\ [][\A i \in Ids :
            (ncb'[i] > ncb[i] /\ trim(op[i]) = <<>> /\ trim(er[i]) = <<>>)
            => /\ LinesOn(console', i, "log") = LinesOn(console, i, "log")
               /\ LinesOn(console', i, "error") = LinesOn(console, i, "error")
               /\ appends' = appends
               /\ op'[i] = <<>>
               /\ er'[i] = <<>>]_vars

C15_Witness ==
    \E i \in Ids :
        /\ child[i].st = "closed"
        /\ ncb[i] = 2
        /\ fed[i].out = <<12, 97, 160>>
        /\ fed[i].err = Text(<<" ">>)
        /\ LinesOn(console, i, "log") = <<Text(<<"a">>)>>
        /\ LinesOn(console, i, "error") = <<>>

\* The ids of the entries of REG that have the name, in registry order.
RECURSIVE C16_Matching(_, _)
C16_Matching(reg, name) ==
    IF reg = <<>> THEN <<>>
    ELSE (IF Head(reg).name = name THEN <<Head(reg).id>> ELSE <<>>)
         \o C16_Matching(Tail(reg), name)

\* C16: stopByName(name) and restartByName(name) apply their action to every
\* registered entry of that name, once each, in the order of the registry,
\* and to no other entry.
C16_Broadcast ==
    [][nStops' # nStops
          => /\ \A name \in Names :
                   stopByName(name, TRUE)
                   => lastStop'.applied = C16_Matching(REG, name)
             /\ \A name \in Names :
                   restartByName(name)
                   => lastStop'.applied = C16_Matching(REG, name)]_vars

C16_Witness ==
    /\ Len(REG) = 2
    /\ REG[1].name = REG[2].name
    /\ lastStop.op = "stop"
    /\ lastStop.name = REG[1].name
    /\ lastStop.applied = <<REG[1].id, REG[2].id>>

\* C17: an accepted entry stays in the registry, under its name: no step (a
\* process event, the start of another entry, stop, restart, stopall)
\* removes, moves or changes an entry of the registry, so every entry whose
\* process was launched is in the registry, whether or not its completion
\* callback has fired.
C17_EntryStays ==
    /\ [][/\ Len(REG') >= Len(REG)
          /\ \A k \in 1..Len(REG) : REG'[k] = REG[k]]_vars
    /\ [](\A i \in Ids :
            child[i].st # "none"
            => \E k \in 1..Len(REG) :
                  /\ REG[k].id = i
                  /\ REG[k].name \in Names
                  /\ nacc[i] = 1)

C17_Witness ==
    /\ Len(REG) = 2
    /\ child[REG[1].id].st = "exited"
    /\ ncb[REG[1].id] = 1
    /\ child[REG[2].id].st = "running"
    /\ lastStop.op = "stop"
    /\ lastStop.name = REG[1].name

\* C18: once the completion callback of an entry has been invoked, no
\* further line is put out for that entry: no step writes a line of the
\* entry on the console or requests an append for it.
C18_NoOutputAfterCompletion ==
    [][\A i \in Ids :
          ncb[i] >= 1
          => /\ LinesOn(console', i, "log") = LinesOn(console, i, "log")
             /\ LinesOn(console', i, "error") = LinesOn(console, i, "error")
             /\ \A a \in appends' \ appends : a.id # i]_vars

\* What the line assembler makes of `text` delivered as one chunk: the lines
\* it puts out and the fragment it keeps.
C19_Uncut(text) ==
    IF text = <<>> THEN [lines |-> <<>>, rest |-> <<>>]
    ELSE [lines |-> SubSeq(split(text), 1, Len(split(text)) - 1),
          rest |-> split(text)[Len(split(text))]]

\* C19: line assembly does not depend on where the chunks are cut.  Until
\* the first flush of an entry, the lines put out on each stream and the
\* fragment kept are those of the same text delivered as one chunk, however
\* the text was cut.
C19_ChunkIndependent ==
    \A i \in Ids :
        ncb[i] = 0
        => /\ LinesOn(console, i, "log") = C19_Uncut(fed[i].out).lines
           /\ op[i] = C19_Uncut(fed[i].out).rest
           /\ LinesOn(console, i, "error") = C19_Uncut(fed[i].err).lines
           /\ er[i] = C19_Uncut(fed[i].err).rest

\* C20: the order of the registry is the order of the calls of start: of two
\* entries of the registry, the one whose start was called first comes
\* first, also when a script is resolved through the manifest.
C20_RegistryInCallOrder ==
    \A j, k \in 1..Len(REG) : j < k => REG[j].id < REG[k].id

\* C20 as amended: the order of the registry is the order in which the
\* scripts of the starts were resolved.  A step that resolves a script with
\* a handler (during the call when the script is given, at the answer of
\* the manifest read otherwise) appends that entry at the end of the
\* registry; so an entry stands before an entry of an earlier call only
\* when the earlier call resolved its script through the manifest.
C20_RegistryInResolutionOrder ==
    /\ [][REG' # REG
            => /\ REG' = Append(REG, REG'[Len(REG')])
               /\ \/ calls' = calls + 1 /\ REG'[Len(REG')].id = calls + 1
                  \/ \E pi \in reads \ reads' : REG'[Len(REG')].id = pi.id]_vars
    /\ [](\A j, k \in 1..Len(REG) :
            (j < k /\ REG[j].id > REG[k].id) => ~Truthy(REG[k].script))

C20_Witness ==
    /\ Len(REG) = 2
    /\ REG[1].id = 2
    /\ REG[2].id = 1
    /\ Truthy(REG[1].script)
    /\ ~Truthy(REG[2].script)
    /\ nacc[1] = 1
    /\ nacc[2] = 1

====
